---- MODULE Spec2Model ----
(***************************************************************************)
(* A model of overreact/simulate.py: get_dydt (the rate-function builder)  *)
(* and get_y (the trajectory simulator with its rate trajectory r).        *)
(*                                                                         *)
(* Numbers are exact rationals <<n, d>> with d > 0, in lowest terms.  The  *)
(* inputs are drawn from halves, small integers and powers of two, on      *)
(* which the float64 arithmetic of the source is exact as well.            *)
(***************************************************************************)
EXTENDS Integers, Sequences, FiniteSets, TLC

(***************************************************************************)
(* Bounds of the model.                                                    *)
(***************************************************************************)
MaxReactions == 3      \* reactions of a scheme in the study of dydt.k
MaxKExp == 2           \* rate constants are 2^0 .. 2^MaxKExp
MaxCalls == 2          \* get_dydt calls made with one and the same k
MaxStoich == 2         \* |stoichiometric coefficient| in the study of _dydt
MaxYHalves == 2        \* concentrations handed to _dydt are 0, 1/2, .., MaxYHalves/2
MaxY0Halves == 4       \* initial concentrations handed to get_y are 0, 1/2, .., MaxY0Halves/2
MaxTs == 2             \* length of a sequence of times handed to r

(***************************************************************************)
(* Rational arithmetic (numpy's float64 operations on the model's inputs). *)
(***************************************************************************)
Abs(n) == IF n < 0 THEN -n ELSE n

RECURSIVE GCD(_, _)
GCD(a, b) == IF b = 0 THEN a ELSE GCD(b, a % b)

Rat(n, d) ==
    LET g == GCD(Abs(n), Abs(d))
        s == IF d < 0 THEN -1 ELSE 1
    IN  <<s * (n \div g), s * (d \div g)>>

RInt(n) == <<n, 1>>

RAdd(a, b) == Rat(a[1] * b[2] + b[1] * a[2], a[2] * b[2])
RSub(a, b) == Rat(a[1] * b[2] - b[1] * a[2], a[2] * b[2])
RMul(a, b) == Rat(a[1] * b[1], a[2] * b[2])
RDiv(a, b) == Rat(a[1] * b[2], a[2] * b[1])
RLt(a, b) == a[1] * b[2] < b[1] * a[2]
RLe(a, b) == a[1] * b[2] <= b[1] * a[2]
RAbs(a) == <<Abs(a[1]), a[2]>>

RECURSIVE RPow(_, _)
RPow(a, e) == IF e = 0 THEN RInt(1) ELSE RMul(a, RPow(a, e - 1))

RECURSIVE Pow2(_)
Pow2(e) == IF e = 0 THEN 1 ELSE 2 * Pow2(e - 1)

\* np.max / ndarray.max of a non-empty vector
RECURSIVE NpMax(_)
NpMax(v) ==
    IF Len(v) = 1 THEN v[1]
    ELSE LET m == NpMax(Tail(v)) IN IF RLt(m, v[1]) THEN v[1] ELSE m

\* np.min / ndarray.min of a non-empty vector
RECURSIVE NpMin(_)
NpMin(v) ==
    IF Len(v) = 1 THEN v[1]
    ELSE LET m == NpMin(Tail(v)) IN IF RLt(v[1], m) THEN v[1] ELSE m

\* np.sum of a vector
RECURSIVE NpSum(_)
NpSum(v) == IF v = <<>> THEN RInt(0) ELSE RAdd(v[1], NpSum(Tail(v)))

\* np.prod of a vector
RECURSIVE NpProd(_)
NpProd(v) == IF v = <<>> THEN RInt(1) ELSE RMul(v[1], NpProd(Tail(v)))

\* v[mask]: the entries of v selected by a boolean mask, in order
RECURSIVE Select(_, _)
Select(v, mask) ==
    IF v = <<>> THEN <<>>
    ELSE (IF mask[1] THEN <<v[1]>> ELSE <<>>) \o Select(Tail(v), Tail(mask))

\* ~mask
Not(mask) == [i \in 1..Len(mask) |-> ~mask[i]]

\* np.any(mask)
NpAny(mask) == \E i \in 1..Len(mask) : mask[i]

(***************************************************************************)
(* State.                                                                  *)
(***************************************************************************)
VARIABLES
    pc,                   \* "start", "built" (get_dydt returned), "raised", "simulated" (get_y returned)
    A,                    \* scheme.A: species x reactions, a sequence of rows of integers
    is_half_equilibrium,  \* scheme.is_half_equilibrium: one flag per reaction
    k_kind,               \* the caller's k is a Python "list" or an "ndarray"
    k_dtype,              \* its element type: "int" or "float"
    ef,                   \* the ef argument of get_dydt
    heap,                 \* the arrays: the caller's k, asanyarray's result, k_adj
    k_before,             \* the caller's k as it was when get_dydt was entered
    calls,                \* get_dydt calls made so far
    dydt,                 \* the returned function: whether it exists, and the array its attribute k names
    first_k,              \* dydt.k as returned by the first get_dydt call
    warnings,             \* the warnings emitted so far
    y_arg,                \* the y of the last dydt(t, y) call
    dy_out,               \* and its result
    y0,                   \* get_y's initial state
    t_span_arg,           \* get_y's t_span argument (None when omitted)
    has_k,                \* whether the dydt handed to get_y has the attribute k
    t_span,               \* the span get_y hands to solve_ivp
    ysol,                 \* res.sol: t_min, t_max and the dense solution at the times where it is known
    r_s,                  \* the r(t) call with a scalar time: t, its result, the dydt evaluations it made
    r_v                   \* the r(ts) call with a sequence of times: ts, its result, the evaluations

vars == <<pc, A, is_half_equilibrium, k_kind, k_dtype, ef, heap, k_before, calls,
          dydt, first_k, warnings, y_arg, dy_out, y0, t_span_arg, has_k, t_span, ysol,
          r_s, r_v>>

simVars == <<y0, t_span_arg, has_k, t_span, ysol, r_s, r_v>>
rateVars == <<y_arg, dy_out>>
inputVars == <<A, is_half_equilibrium, k_kind, k_dtype, ef>>

None == <<>>

\* def get_dydt(scheme, k, ef=1.0e3)
DefaultEf == 1000

NReactions == Len(is_half_equilibrium)

\* dydt.k, the attribute of the returned function
DydtK == heap[dydt.k]

(***************************************************************************)
(* get_dydt.                                                               *)
(***************************************************************************)
\* np.asanyarray(k): an ndarray passes through, a list is converted to a new array
AsAnyArray(kind) == IF kind = "ndarray" THEN "k" ELSE "asarray"

NdCopyAlias(ref) == ref
\* ndarray.copy(): a new array
NdCopy(ref) == "k_adj"

\* np.any(is_half_equilibrium) and np.any(~is_half_equilibrium)
ScalingApplies(flags) == NpAny(flags) /\ NpAny(Not(flags))

ScaleFactorMinOrd(kadj, flags, e) ==
    RMul(e, RDiv(NpMin(Select(kadj, Not(flags))), NpMin(Select(kadj, flags))))
ScaleFactorMaxEq(kadj, flags, e) ==
    RMul(e, RDiv(NpMax(Select(kadj, Not(flags))), NpMax(Select(kadj, flags))))
\* ef * (k_adj[~is_half_equilibrium].max() / k_adj[is_half_equilibrium].min())
ScaleFactor(kadj, flags, e) ==
    RMul(e, RDiv(NpMax(Select(kadj, Not(flags))), NpMin(Select(kadj, flags))))

ScaleAll(kadj, flags, f) == [i \in 1..Len(kadj) |-> RMul(kadj[i], f)]
\* k_adj[is_half_equilibrium] *= f
ScaleMasked(kadj, flags, f) ==
    [i \in 1..Len(kadj) |-> IF flags[i] THEN RMul(kadj[i], f) ELSE kadj[i]]

\* The in-place multiply of an array of this dtype by a float64 factor: numpy
\* refuses to cast the float64 product back into an integer array.
InPlaceCastOk(dtype) == dtype = "float"

get_dydt ==
    /\ pc \in {"start", "built", "raised"}
    /\ calls < MaxCalls
    /\ LET r1 == AsAnyArray(k_kind)
           h1 == [heap EXCEPT ![r1] = heap["k"]]
           r2 == NdCopy(r1)
           h2 == [h1 EXCEPT ![r2] = h1[r1]]
           flags == is_half_equilibrium
           scale == ScalingApplies(flags)
           f == ScaleFactor(h2[r2], flags, ef)
           h3 == [h2 EXCEPT ![r2] = ScaleMasked(h2[r2], flags, f)]
       IN  IF scale /\ ~InPlaceCastOk(k_dtype)
           THEN /\ pc' = "raised"
                /\ heap' = h2
                /\ dydt' = [ok |-> FALSE, k |-> "k"]
                /\ first_k' = first_k
           ELSE /\ pc' = "built"
                /\ heap' = (IF scale THEN h3 ELSE h2)
                /\ dydt' = [ok |-> TRUE, k |-> r2]
                /\ first_k' = (IF calls = 0 THEN heap'[r2] ELSE first_k)
    /\ k_before' = heap["k"]
    /\ calls' = calls + 1
    /\ UNCHANGED <<inputVars, warnings, rateVars, simVars>>

\* The first get_dydt call of a run
get_dydt_once == calls = 0 /\ get_dydt

(***************************************************************************)
(* _dydt, the function get_dydt returns.                                   *)
(***************************************************************************)
NSpecies == Len(A)

\* m.T of a matrix with at least one row
Transpose(m) == [j \in 1..Len(m[1]) |-> [i \in 1..Len(m) |-> m[i][j]]]

WhereAbs(a) ==
    [i \in 1..Len(a) |-> [j \in 1..Len(a[i]) |-> Abs(a[i][j])]]
\* np.where(A > 0, 0, -A)
Where(a) ==
    [i \in 1..Len(a) |-> [j \in 1..Len(a[i]) |-> IF a[i][j] > 0 THEN 0 ELSE -a[i][j]]]

\* np.power(y, e): y is broadcast along the rows of e
Power(y, e) == [j \in 1..Len(e) |-> [i \in 1..Len(e[j]) |-> RPow(y[i], e[j][i])]]

\* np.prod(m, axis=1)
ProdAxis1(m) == [j \in 1..Len(m) |-> NpProd(m[j])]

\* k * v, elementwise
Times(kv, v) == [j \in 1..Len(kv) |-> RMul(kv[j], v[j])]

DotConsumed(a, v) ==
    [i \in 1..Len(a) |->
        NpSum([j \in 1..Len(v) |-> RMul(RInt(IF a[i][j] > 0 THEN 0 ELSE a[i][j]), v[j])])]
\* np.dot(A, r)
Dot(a, v) ==
    [i \in 1..Len(a) |-> NpSum([j \in 1..Len(v) |-> RMul(RInt(a[i][j]), v[j])])]

\* _dydt(t, y, k=k_adj, A=A)
Dydt(t, y) ==
    LET r == Times(DydtK, ProdAxis1(Power(y, Transpose(Where(A)))))
    IN  Dot(A, r)

YVals == {Rat(h, 2) : h \in 0..MaxYHalves}
TVals == {RInt(0), RInt(1)}

\* One evaluation per run: _dydt keeps no state, a further call adds nothing.
call_dydt ==
    /\ pc = "built"
    /\ dy_out = None
    /\ \E t \in TVals, y \in [1..NSpecies -> YVals] :
          /\ y_arg' = y
          /\ dy_out' = Dydt(t, y)
    /\ UNCHANGED <<pc, inputVars, heap, k_before, calls, dydt, first_k, warnings, simVars>>

(***************************************************************************)
(* get_y.                                                                  *)
(***************************************************************************)
\* np.log(2.0) = 0.6931471805599453: the continued-fraction convergent
\* 3057423/4410929, within 2.3e-14 of it (the binary64 value itself has the
\* denominator 2^53, beyond the integers of the arithmetic used here)
LN2 == Rat(3057423, 4410929)

\* n_halflives = 10.0
NHalflives == 10

\* y0[np.nonzero(y0)]
RECURSIVE Nonzero(_)
Nonzero(v) ==
    IF v = <<>> THEN <<>>
    ELSE (IF v[1] = RInt(0) THEN <<>> ELSE <<v[1]>>) \o Nonzero(Tail(v))

HalflifeFirstOrder(y, kv) == RDiv(LN2, NpMin(kv))
HalflifeFastest(y, kv) ==
    RDiv(NpMax(<<RDiv(NpMax(y), RInt(2)), LN2, RDiv(RInt(1), NpMin(Nonzero(y)))>>),
         NpMax(kv))
\* np.max([np.max(y0) / 2.0, np.log(2.0), 1.0 / np.min(y0[np.nonzero(y0)])]) / np.min(dydt.k)
HalflifeEstimate(y, kv) ==
    RDiv(NpMax(<<RDiv(NpMax(y), RInt(2)), LN2, RDiv(RInt(1), NpMin(Nonzero(y)))>>),
         NpMin(kv))

\* t_span = [0.0, n_halflives * halflife_estimate]
EstimatedSpan(halflife) == <<RInt(0), RMul(RInt(NHalflives), halflife)>>

\* np.min of an empty array raises ValueError
MinRaises(y, withK) == withK /\ Nonzero(y) = <<>>

\* dydt(t, y) is zero in every component: the state does not move
Steady(y) == \A i \in 1..NSpecies : Dydt(RInt(0), y)[i] = RInt(0)

\* res.sol of solve_ivp(dydt, t_span, y0, dense_output=True): it covers
\* t_span and starts at y0.  Where the integration arrives is the solver's
\* arithmetic and is left open, except from a steady state, which it keeps.
OdeSolution(span, y) ==
    [t_min |-> span[1], t_max |-> span[2],
     at |-> [t \in (IF Steady(y) THEN {span[1], span[2]} ELSE {span[1]}) |-> y]]

Y0Vals == {Rat(h, 2) : h \in 0..MaxY0Halves}

\* t_span omitted, or given (with a start other than zero)
SpanArgs == {None, <<RInt(1), RInt(3)>>}

get_y ==
    /\ pc = "built"
    /\ \E y \in [1..NSpecies -> Y0Vals], span \in SpanArgs, withK \in BOOLEAN :
          /\ y0' = y
          /\ t_span_arg' = span
          /\ has_k' = withK
          /\ IF span = None /\ MinRaises(y, withK)
             THEN /\ pc' = "raised"
                  /\ UNCHANGED <<t_span, ysol>>
             ELSE /\ pc' = "simulated"
                  /\ t_span' = (IF span # None THEN span
                                ELSE IF withK THEN EstimatedSpan(HalflifeEstimate(y, DydtK))
                                ELSE EstimatedSpan(RInt(1)))
                  /\ ysol' = OdeSolution(t_span', y)
    /\ UNCHANGED <<inputVars, heap, k_before, calls, dydt, first_k, warnings, rateVars,
                   r_s, r_v>>

(***************************************************************************)
(* r, the rate trajectory get_y returns.                                   *)
(***************************************************************************)
\* y(t) for a scalar time: the state, a vector
SolAtScalar(t) == ysol.at[t]

\* y(t) for an array of times: one column per time
SolAt(ts) == [i \in 1..NSpecies |-> [j \in 1..Len(ts) |-> ysol.at[ts[j]][i]]]

\* zip(a, b): the pairs, as many as the shorter of the two
Zip(a, b) ==
    [j \in 1..(IF Len(a) < Len(b) THEN Len(a) ELSE Len(b)) |-> <<a[j], b[j]>>]

\* One call of dydt made by r: its value, and the calls made so far
Eval(t, y, n) == [val |-> Dydt(t, y), n |-> n + 1]

\* [dydt(_t, _y) for _t, _y in pairs]: the values in order, and the calls made
RECURSIVE Comprehension(_, _)
Comprehension(pairs, acc) ==
    IF pairs = <<>> THEN acc
    ELSE LET e == Eval(pairs[1][1], pairs[1][2], acc.n)
         IN  Comprehension(Tail(pairs), [rows |-> Append(acc.rows, e.val), n |-> e.n])

PerTime(ts) == Comprehension(Zip(ts, Transpose(SolAt(ts))), [rows |-> <<>>, n |-> 0])

RVectorizedNoT(ts) == LET c == PerTime(ts) IN [out |-> c.rows, n |-> c.n]
\* np.array([dydt(_t, _y) for _t, _y in zip(t, y(t).T)]).T
RVectorized(ts) == LET c == PerTime(ts) IN [out |-> Transpose(c.rows), n |-> c.n]

\* except TypeError: dydt(t, y(t))
RScalar(t) == LET e == Eval(t, SolAtScalar(t), 0) IN [out |-> e.val, n |-> e.n]

\* The times at which the solution is known
QueryTimes == DOMAIN ysol.at
TimeSeqs == UNION {[1..n -> QueryTimes] : n \in 1..MaxTs}

\* r(ts) with a sequence of times: zip succeeds.  One such query per run: r
\* keeps no state, a further one adds nothing.
r_vector ==
    /\ pc = "simulated"
    /\ r_v = None
    /\ \E ts \in TimeSeqs :
          LET res == RVectorized(ts)
          IN  r_v' = [ts |-> ts, out |-> res.out, n_eval |-> res.n]
    /\ UNCHANGED <<pc, inputVars, heap, k_before, calls, dydt, first_k, warnings, rateVars,
                   y0, t_span_arg, has_k, t_span, ysol, r_s>>

\* r(t) with a scalar time: zip raises TypeError.  One such query per run.
r_scalar ==
    /\ pc = "simulated"
    /\ r_s = None
    /\ \E t \in QueryTimes :
          LET res == RScalar(t)
          IN  r_s' = [t |-> t, out |-> res.out, n_eval |-> res.n]
    /\ UNCHANGED <<pc, inputVars, heap, k_before, calls, dydt, first_k, warnings, rateVars,
                   y0, t_span_arg, has_k, t_span, ysol, r_v>>

(***************************************************************************)
(* The inputs of get_dydt.                                                 *)
(***************************************************************************)
Refs == {"k", "asarray", "k_adj"}

KVals == {RInt(Pow2(e)) : e \in 0..MaxKExp}

\* ef: the default, and a factor below one
EfVals == {RInt(DefaultEf), Rat(1, 2)}

\* A -> B, B -> A, A -> B, ..: two species, n reactions
ChainA(n) ==
    <<[j \in 1..n |-> IF j % 2 = 1 THEN -1 ELSE 1],
      [j \in 1..n |-> IF j % 2 = 1 THEN 1 ELSE -1]>>

\* Nothing has been called yet: the caller holds a scheme, k and ef.
Start(a, flags, kvec, kind, dtype, e) ==
    /\ pc = "start"
    /\ A = a
    /\ is_half_equilibrium = flags
    /\ k_kind = kind
    /\ k_dtype = dtype
    /\ ef = e
    /\ heap = [ref \in Refs |-> IF ref = "k" THEN kvec ELSE <<>>]
    /\ k_before = None
    /\ calls = 0
    /\ dydt = [ok |-> FALSE, k |-> "k"]
    /\ first_k = None
    /\ warnings = <<>>
    /\ y_arg = None
    /\ dy_out = None
    /\ y0 = None
    /\ t_span_arg = None
    /\ has_k = FALSE
    /\ t_span = None
    /\ ysol = None
    /\ r_s = None
    /\ r_v = None

\* The study of dydt.k: every flag vector and every k of up to MaxReactions
\* reactions, as a list or an ndarray of ints or floats, with either ef.
InitK ==
    \E n \in 1..MaxReactions :
      \E flags \in [1..n -> BOOLEAN], kvec \in [1..n -> KVals],
         kind \in {"list", "ndarray"}, dtype \in {"int", "float"}, e \in EfVals :
        Start(ChainA(n), flags, kvec, kind, dtype, e)

NextK == get_dydt

SpecK == InitK /\ [][NextK]_vars

(***************************************************************************)
(* Claims about dydt.k.                                                    *)
(***************************************************************************)
k_in == heap["k"]
HalfEq == {i \in 1..NReactions : is_half_equilibrium[i]}
Ordinary == {i \in 1..NReactions : ~is_half_equilibrium[i]}
Largest(v, I) == CHOOSE x \in {v[i] : i \in I} : \A j \in I : RLe(v[j], x)
Smallest(v, I) == CHOOSE x \in {v[i] : i \in I} : \A j \in I : RLe(x, v[j])
Returned == pc = "built" /\ dydt.ok

\* C1: with at least one half-equilibrium and one other reaction, every
\* half-equilibrium entry i of the returned dydt.k is
\* k[i] * ef * (max k over the others / min k over the half-equilibria); with
\* one of each and k_eq < k_ord it is k_eq * ef * (k_ord / k_eq).
C1_EquilibriumScaling ==
    (Returned /\ HalfEq # {} /\ Ordinary # {}) =>
        /\ \A i \in HalfEq :
              DydtK[i] = RMul(RMul(k_in[i], ef),
                              RDiv(Largest(k_in, Ordinary), Smallest(k_in, HalfEq)))
        /\ \A q \in HalfEq, o \in Ordinary :
              (NReactions = 2 /\ RLt(k_in[q], k_in[o])) =>
                  DydtK[q] = RMul(RMul(k_in[q], ef), RDiv(k_in[o], k_in[q]))

C1_Witness ==
    /\ Returned
    /\ Cardinality(HalfEq) = 2
    /\ Cardinality(Ordinary) = 1
    /\ \E i \in HalfEq, j \in HalfEq, o \in Ordinary :
          RLt(k_in[i], k_in[j]) /\ RLt(k_in[j], k_in[o]) /\ DydtK[j] # k_in[j]

\* C2: the returned dydt.k is as long as k; dydt.k[i] = k[i] for every
\* reaction that is not half-equilibrium, and for every reaction when all
\* reactions are half-equilibria or none is.
C2_UnscaledEntries ==
    Returned =>
        /\ Len(DydtK) = Len(k_in)
        /\ \A i \in Ordinary : DydtK[i] = k_in[i]
        /\ (HalfEq = {} \/ Ordinary = {}) => DydtK = k_in

C2_Witness ==
    /\ Returned
    /\ HalfEq # {}
    /\ Cardinality(Ordinary) = 2
    /\ \E i \in HalfEq : DydtK[i] # k_in[i]
    /\ \E i \in Ordinary, j \in Ordinary : RLt(k_in[i], k_in[j])

\* C3: get_dydt leaves the caller's k as it was, also when it scales, and a
\* second call with the same k returns the same dydt.k as the first.
C3_CallerKUntouched ==
    /\ calls > 0 => k_in = k_before
    /\ (Returned /\ calls >= 2) => DydtK = first_k

C3_Witness ==
    /\ Returned
    /\ calls = 2
    /\ k_kind = "ndarray"
    /\ HalfEq # {} /\ Ordinary # {}
    /\ DydtK # k_in

\* C8: when the scaling is applied and the slowest half-equilibrium is
\* still slower than the fastest other reaction, get_dydt emits a
\* RuntimeWarning and returns dydt with the scaling applied.
StillSlower ==
    /\ Returned
    /\ HalfEq # {} /\ Ordinary # {}
    /\ RLt(Smallest(DydtK, HalfEq), Largest(DydtK, Ordinary))

C8_WarnsWhenStillSlower ==
    StillSlower => \E w \in 1..Len(warnings) : warnings[w] = "RuntimeWarning"

\* C10: when the scaling is applied, every half-equilibrium entry of dydt.k
\* is at least ef times the largest other entry, the smallest being exactly
\* ef times it, and the half-equilibrium entries keep their ratios.
C10_CommonFactor ==
    (Returned /\ HalfEq # {} /\ Ordinary # {}) =>
        /\ \A i \in HalfEq : RLe(RMul(ef, Largest(DydtK, Ordinary)), DydtK[i])
        /\ Smallest(DydtK, HalfEq) = RMul(ef, Largest(DydtK, Ordinary))
        /\ \A i \in HalfEq, j \in HalfEq :
              RDiv(DydtK[i], DydtK[j]) = RDiv(k_in[i], k_in[j])

C10_Witness ==
    /\ Returned
    /\ Cardinality(HalfEq) = 2
    /\ Ordinary # {}
    /\ \E i \in HalfEq, j \in HalfEq :
          RLt(k_in[i], k_in[j]) /\ RLt(RMul(ef, Largest(DydtK, Ordinary)), DydtK[j])

(***************************************************************************)
(* The study of _dydt: every matrix of two species and two reactions with  *)
(* coefficients in -MaxStoich..MaxStoich.                                  *)
(***************************************************************************)
RateSpecies == 1..2
RateReactions == 1..2
Coeffs == (-MaxStoich)..MaxStoich
RateFlags == {<<FALSE, FALSE>>, <<TRUE, FALSE>>, <<TRUE, TRUE>>}
RateKs == {<<RInt(1), RInt(1)>>, <<RInt(1), RInt(2)>>}

InitRate ==
    \E a \in [RateSpecies -> [RateReactions -> Coeffs]], flags \in RateFlags, kvec \in RateKs :
        Start(a, flags, kvec, "ndarray", "float", RInt(DefaultEf))

NextRate == get_dydt_once \/ call_dydt

SpecRate == InitRate /\ [][NextRate]_vars

\* The mass-action rate of reaction j at state y, with rate constants kv
MassAction(kv, y, j) ==
    LET p[i \in 0..NSpecies] ==
            IF i = 0 THEN RInt(1)
            ELSE RMul(p[i - 1],
                      IF A[i][j] >= 0 THEN RInt(1)
                      ELSE IF y[i] = RInt(0) THEN RInt(0)
                      ELSE RPow(y[i], -A[i][j]))
    IN  RMul(kv[j], p[NSpecies])

\* Row i of A times the vector of mass-action rates
NetRate(kv, y, i) ==
    LET s[j \in 0..NReactions] ==
            IF j = 0 THEN RInt(0)
            ELSE RAdd(s[j - 1], RMul(RInt(A[i][j]), MassAction(kv, y, j)))
    IN  s[NReactions]

Called == pc = "built" /\ dy_out # None

\* C4: dydt(t, y) is A times r, with r_j = dydt.k[j] times the product over
\* the species i of y[i] ** max(0, -A[i,j]); for A <=> B with equal rate
\* constants k it is [k*(b-a), k*(a-b)], and [0, 0] when a = b.
C4_MassActionRates ==
    Called =>
        /\ Len(dy_out) = NSpecies
        /\ \A i \in 1..NSpecies : dy_out[i] = NetRate(DydtK, y_arg, i)
        /\ (A = <<(<<-1, 1>>), (<<1, -1>>)>> /\ DydtK[1] = DydtK[2]) =>
              /\ dy_out = <<RMul(DydtK[1], RSub(y_arg[2], y_arg[1])),
                            RMul(DydtK[1], RSub(y_arg[1], y_arg[2]))>>
              /\ y_arg[1] = y_arg[2] => dy_out = <<RInt(0), RInt(0)>>

C4_Witness ==
    /\ Called
    /\ A = <<(<<-1, 1>>), (<<1, -1>>)>>
    /\ DydtK[1] = DydtK[2]
    /\ y_arg = <<RInt(1), Rat(1, 2)>>
    /\ dy_out = <<Rat(-1, 2), Rat(1, 2)>>

ColumnSum(j) == A[1][j] + A[2][j]
Closed == \A j \in 1..NReactions : ColumnSum(j) = 0

\* C5: when every column of A sums to zero, the entries of dydt(t, y) sum
\* to zero.
C5_MassConservation ==
    (Called /\ Closed) => NpSum(dy_out) = RInt(0)

C5_Witness ==
    /\ Called
    /\ Closed
    /\ \E j \in 1..NReactions : A[1][j] # 0
    /\ dy_out[1] # RInt(0)
    /\ is_half_equilibrium = <<TRUE, FALSE>>

(***************************************************************************)
(* The study of get_y and r: one reaction A -> B or the pair A -> B,       *)
(* B -> A, with every flag vector and every k, given as a list of ints (as *)
(* in the docstrings) or of floats.                                        *)
(***************************************************************************)
\* core.parse_reactions("A <=> B")
SchemeAB == [A |-> <<(<<-1, 1>>), (<<1, -1>>)>>, is_half_equilibrium |-> <<TRUE, TRUE>>]

InitY ==
    \E n \in {1, 2} :
      \E flags \in [1..n -> BOOLEAN], kvec \in [1..n -> KVals], dtype \in {"int", "float"} :
        Start(ChainA(n), flags, kvec, "list", dtype, RInt(DefaultEf))

NextY == get_dydt_once \/ get_y \/ r_vector \/ r_scalar

SpecY == InitY /\ [][NextY]_vars

Simulated == pc = "simulated"
Candidates == {RDiv(Largest(y0, 1..NSpecies), RInt(2)), LN2,
               RDiv(RInt(1), Smallest(y0, {i \in 1..NSpecies : y0[i] # RInt(0)}))}
Greatest(S) == CHOOSE x \in S : \A z \in S : RLe(z, x)
DocExample ==
    /\ Simulated
    /\ A = SchemeAB.A
    /\ is_half_equilibrium = SchemeAB.is_half_equilibrium
    /\ k_dtype = "int"
    /\ k_in = <<RInt(1), RInt(1)>>
    /\ y0 = <<RInt(1), RInt(0)>>
    /\ t_span_arg = None
    /\ has_k

\* C6: the span handed to the solver is the caller's t_span when given;
\* otherwise (0, 10 * halflife) with halflife =
\* max(max(y0)/2, ln 2, 1/min(nonzero y0)) / min(dydt.k) when dydt has k, and
\* halflife = 1 when it has not.  For A <=> B, k = [1, 1], y0 = [1, 0] the
\* window (y.t_min, y.t_max) is (0, 10).
C6_IntegrationSpan ==
    Simulated =>
        /\ t_span_arg # None => t_span = t_span_arg
        /\ (t_span_arg = None /\ has_k) =>
              t_span = <<RInt(0),
                         RMul(RInt(10), RDiv(Greatest(Candidates), Smallest(DydtK, 1..NReactions)))>>
        /\ (t_span_arg = None /\ ~has_k) => t_span = <<RInt(0), RInt(10)>>
        /\ <<ysol.t_min, ysol.t_max>> = t_span
        /\ DocExample => <<ysol.t_min, ysol.t_max>> = <<RInt(0), RInt(10)>>

\* The zeroth-order candidate max(y0)/2 decides, and the smallest entry of
\* dydt.k = [2000, 2] is not the smallest of the caller's k = [1, 2].
C6_Witness ==
    /\ Simulated
    /\ t_span_arg = None
    /\ has_k
    /\ is_half_equilibrium = <<TRUE, FALSE>>
    /\ k_in = <<RInt(1), RInt(2)>>
    /\ DydtK = <<RInt(2000), RInt(2)>>
    /\ y0 = <<RInt(2), Rat(3, 2)>>
    /\ t_span = <<RInt(0), RInt(5)>>

Tolerance == Rat(1, 100)
Approx(a, b) == RLe(RAbs(RSub(a, b)), Tolerance)

\* C7 as stated: for A <=> B, k = [1, 1], y0 = [1, 0] and no t_span, the
\* estimated span is approximately (0, 10 * ln 2).
C7_SpanIsTenLn2 ==
    DocExample =>
        /\ Approx(t_span[1], RInt(0))
        /\ Approx(t_span[2], RMul(RInt(10), LN2))

\* C7 amended: for A <=> B, k = [1, 1], y0 = [1, 0] and no t_span, the
\* estimated span is (0, 10): the second-order candidate 1/min(nonzero y0) = 1
\* exceeds ln 2.
C7_SpanIsTen ==
    DocExample => (t_span[1] = RInt(0) /\ t_span[2] = RInt(10))

C7_Witness ==
    /\ DocExample
    /\ DydtK = <<RInt(1), RInt(1)>>
    /\ ysol.t_max = RInt(10)

\* dydt(t, y)[i] by the mass-action law, for a state y
RateAt(y, i) == NetRate(DydtK, y, i)

====
